---- MODULE Spec2Model ----
(***************************************************************************)
(* Session persistence of the WhatsApp chatbot: SessionStorage             *)
(* (services/session_storage.py), a Redis primary tier with an in-process  *)
(* dictionary as fallback tier.                                            *)
(*                                                                         *)
(* Time.  A datetime is a number of ticks; TicksPerSecond ticks make one   *)
(* model second (Python: 10^6 microseconds per second).  Redis TTLs are    *)
(* whole seconds.  The model's second stands for the 86400 s of the        *)
(* default session_ttl, so session_ttl is 1.                               *)
(***************************************************************************)
EXTENDS Integers, Sequences, FiniteSets, TLC

VARIABLES
    fallback_storage,   \* self.fallback_storage: user_phone -> session dict
    use_redis,          \* self.use_redis
    redis_client,       \* self.redis_client ("client" or "null")
    redis,              \* the Redis server's keyspace: user_phone -> record with TTL
    redisUp,            \* whether the Redis server is reachable right now
    now,                \* datetime.now(), in ticks
    pc,                 \* position inside save_session ("idle" between calls)
    last,               \* the most recent store call: operation, user, what the
                        \* Redis call did, result (a save's session is written[user])
    written,            \* per user: the session of the latest save_session, or
                        \* Deleted after delete_session, None before any call
    req,                \* ChatService: per webhook request, the position inside
                        \* process_message and its local ChatSession
    running             \* the request the event loop is running (0: none); a
                        \* coroutine keeps the loop until it suspends or returns

vars == <<fallback_storage, use_redis, redis_client, redis, redisUp, now, pc,
          last, written, req, running>>

\* The state of ChatService's requests; SessionStorage's methods leave it alone.
chatVars == <<req, running>>

----------------------------------------------------------------------------
(* Bounds and constants *)

Users == {"A", "B"}

MaxNow == 3

TicksPerSecond == 2

MaxAge == 0

session_ttl == 1

None == [absent |-> TRUE]

Deleted == [deleted |-> TRUE]

SystemMessage == [role |-> "system", content |-> "persona"]

MessageLists == {<<SystemMessage>>}

\* The webhook requests in flight at the same time.
Reqs == {1, 2}

\* A request that has not arrived.
IdleRequest ==
    [stage |-> "idle", user |-> "-", text |-> "-", session |-> None,
     history |-> << >>, model |-> "-", reply |-> "-"]

\* A request that has been answered; its locals are gone.
AnsweredRequest == [IdleRequest EXCEPT !.stage = "answered"]

\* Who sends each request: the first message comes from one user, the second
\* from the same user or from another one.
Senders(r) == IF r = 1 THEN {"A"} ELSE Users

\* The session dicts a caller passes to save_session: every caller stamps
\* last_activity with datetime.now() right before it saves (add_message, or
\* the literal in test_session_storage); created_at is up to MaxAge ticks
\* older.
SessionInputs(u) ==
    { s \in [user_phone : {u}, messages : MessageLists,
             created_at : 0..now, last_activity : {now}] :
        s.last_activity - s.created_at <= MaxAge }

----------------------------------------------------------------------------
(* Timestamps and serialisation *)

\* datetime.isoformat(): the fractional part is printed only when it is not 0.
isoformat(t) ==
    IF t % TicksPerSecond = 0
    THEN <<t \div TicksPerSecond>>
    ELSE <<t \div TicksPerSecond, t % TicksPerSecond>>

\* Variant: the fractional part is not read back.
fromisoformat_whole(s) == s[1] * TicksPerSecond

\* datetime.fromisoformat(): a missing fractional part reads as 0.
fromisoformat(s) ==
    IF Len(s) = 1
    THEN s[1] * TicksPerSecond
    ELSE s[1] * TicksPerSecond + s[2]

_serialize_session(session_data) ==
    [session_data EXCEPT !.created_at = isoformat(session_data.created_at),
                         !.last_activity = isoformat(session_data.last_activity)]

_deserialize_session(session_json) ==
    [session_json EXCEPT !.created_at = fromisoformat(session_json.created_at),
                         !.last_activity = fromisoformat(session_json.last_activity)]

----------------------------------------------------------------------------
(* The Redis server, as the store sees it *)

_get_redis_key(user_phone) == <<"whatsapp_session", user_phone>>

RedisKeys == { _get_redis_key(u) : u \in Users }

\* A key is live until its TTL has run out.
RedisLive(key) == redis[key] # None /\ now < redis[key].expire_at

\* GET key
RedisGET(key) == IF RedisLive(key) THEN redis[key].value ELSE None

\* KEYS whatsapp_session:*
RedisKEYS == { key \in RedisKeys : RedisLive(key) }

\* SETEX key seconds value
RedisSETEX(key, seconds, value) ==
    [redis EXCEPT ![key] =
        [value |-> value, expire_at |-> now + seconds * TicksPerSecond]]

\* DEL key
RedisDEL(key) == [redis EXCEPT ![key] = None]

\* `if self.use_redis and self.redis_client`
RedisEnabled == use_redis /\ redis_client # "null"

\* What a call to the Redis client can do: answer, or raise ConnectionError /
\* TimeoutError.  An unreachable server makes every call raise.  No call is
\* made ("none") when the store runs in fallback-only mode.
DurableOutcomes ==
    IF RedisEnabled
    THEN IF redisUp THEN {"ok", "raise"} ELSE {"raise"}
    ELSE {"none"}

\* setex can also answer with a falsy result (lines 152-157).
SetexOutcomes ==
    IF redisUp THEN {"ok", "nonok", "raise"} ELSE {"raise"}

----------------------------------------------------------------------------
(* Results of the store's methods *)

SessionResult(s) == [kind |-> "session", val |-> s]

AbsentResult == [kind |-> "absent", val |-> None]

BoolResult(b) == [kind |-> "bool", val |-> b]

MappingResult(m) == [kind |-> "mapping", val |-> m]

CountResult(n) == [kind |-> "count", val |-> n]

DescriptorResult(d) == [kind |-> "descriptor", val |-> d]

PendingResult == [kind |-> "pending", val |-> None]

\* An exception leaving the method.
ExceptionResult == [kind |-> "exception", val |-> None]

----------------------------------------------------------------------------
(* get_session *)

\* `if user_phone in self.fallback_storage: return ...; return None`
FallbackLookup(user_phone) ==
    IF fallback_storage[user_phone] # None
    THEN SessionResult(fallback_storage[user_phone])
    ELSE AbsentResult

\* Variant: the except branch gives up instead of reading the fallback tier.
get_session_except_absent(user_phone) == AbsentResult

get_session_except(user_phone) == FallbackLookup(user_phone)

get_session(user_phone, outcome) ==
    IF RedisEnabled
    THEN IF outcome = "raise"
         THEN get_session_except(user_phone)
         ELSE LET session_json == RedisGET(_get_redis_key(user_phone))
              IN  IF session_json # None
                  THEN SessionResult(_deserialize_session(session_json))
                  ELSE FallbackLookup(user_phone)
    ELSE FallbackLookup(user_phone)

GetSession(u) ==
    /\ pc = "idle"
    /\ \E o \in DurableOutcomes :
          last' = [op |-> "get", user |-> u, outcome |-> o,
                   result |-> get_session(u, o)]
    /\ UNCHANGED <<fallback_storage, use_redis, redis_client, redis, redisUp,
                   now, pc, written>>

----------------------------------------------------------------------------
(* save_session *)

\* Variant: the backup write is left out.
FallbackWrite_skipped(user_phone, session_data) == fallback_storage

\* `self.fallback_storage[user_phone] = session_data.copy()`
FallbackWrite(user_phone, session_data) ==
    [fallback_storage EXCEPT ![user_phone] = session_data]

save_session_except == BoolResult(TRUE)

\* The value save_session returns after the setex call.
save_session_result(outcome) ==
    CASE outcome = "ok"    -> BoolResult(TRUE)
      [] outcome = "nonok" -> BoolResult(FALSE)
      [] outcome = "raise" -> save_session_except

\* Lines 136-143: the fallback write, then either the return of fallback-only
\* mode or the start of the Redis write.
SaveSessionBegin(u, s) ==
    /\ pc = "idle"
    /\ fallback_storage' = FallbackWrite(u, s)
    /\ written' = [written EXCEPT ![u] = s]
    /\ IF RedisEnabled
       THEN /\ pc' = "setex"
            /\ last' = [op |-> "save", user |-> u,
                        outcome |-> "pending", result |-> PendingResult]
       ELSE /\ pc' = "idle"
            /\ last' = [op |-> "save", user |-> u,
                        outcome |-> "none", result |-> BoolResult(TRUE)]
    /\ UNCHANGED <<use_redis, redis_client, redis, redisUp, now>>

\* Lines 146-166: setex with the configured TTL, and the return value.
SaveSessionSetex ==
    /\ pc = "setex"
    /\ \E o \in SetexOutcomes :
          /\ redis' = IF o = "ok"
                      THEN RedisSETEX(_get_redis_key(last.user), session_ttl,
                                      _serialize_session(written[last.user]))
                      ELSE redis
          /\ last' = [last EXCEPT !.outcome = o,
                                  !.result = save_session_result(o)]
    /\ pc' = "idle"
    /\ UNCHANGED <<fallback_storage, use_redis, redis_client, redisUp, now,
                   written>>

----------------------------------------------------------------------------
(* delete_session *)

\* Variant: `self.fallback_storage.clear()`
FallbackDelete_everyone(user_phone) == [u \in Users |-> None]

\* `if user_phone in self.fallback_storage: del self.fallback_storage[user_phone]`
FallbackDelete(user_phone) ==
    [fallback_storage EXCEPT ![user_phone] = None]

delete_session_except == BoolResult(FALSE)

\* Both branches of `if deleted:` only log; the method returns True.
delete_session_result(outcome) ==
    IF outcome = "raise" THEN delete_session_except ELSE BoolResult(TRUE)

DeleteSession(u) ==
    /\ pc = "idle"
    /\ fallback_storage' = FallbackDelete(u)
    /\ written' = [written EXCEPT ![u] = Deleted]
    /\ \E o \in DurableOutcomes :
          /\ redis' = IF o = "ok" THEN RedisDEL(_get_redis_key(u)) ELSE redis
          /\ last' = [op |-> "delete", user |-> u, outcome |-> o,
                      result |-> delete_session_result(o)]
    /\ UNCHANGED <<use_redis, redis_client, redisUp, now, pc>>

----------------------------------------------------------------------------
(* get_all_sessions *)

\* `self.fallback_storage.copy()`
FallbackCopy == [u \in Users |-> fallback_storage[u]]

\* Variant: no except clause around the KEYS call.
get_all_sessions_reraise == ExceptionResult

get_all_sessions_except == MappingResult(FallbackCopy)

\* keysOutcome: what KEYS does; getOutcome[u]: what the GET inside
\* self.get_session(u) does.  `if session_data:` drops the users get_session
\* finds nothing for.
get_all_sessions(keysOutcome, getOutcome) ==
    IF RedisEnabled
    THEN IF keysOutcome = "raise"
         THEN get_all_sessions_except
         ELSE MappingResult(
                [u \in Users |->
                    IF _get_redis_key(u) \in RedisKEYS
                    THEN get_session(u, getOutcome[u]).val
                    ELSE None])
    ELSE MappingResult(FallbackCopy)

\* The call's outcome as a whole: "partial" when KEYS answered and the GET of
\* some listed key raised.
AllOutcome(keysOutcome, getOutcome) ==
    IF keysOutcome # "ok"
    THEN keysOutcome
    ELSE IF \E u \in Users :
                _get_redis_key(u) \in RedisKEYS /\ getOutcome[u] = "raise"
         THEN "partial"
         ELSE "ok"

GetAllSessions ==
    /\ pc = "idle"
    /\ \E ko \in DurableOutcomes, go \in [Users -> DurableOutcomes] :
          last' = [op |-> "get_all", user |-> "-",
                   outcome |-> AllOutcome(ko, go),
                   result |-> get_all_sessions(ko, go)]
    /\ UNCHANGED <<fallback_storage, use_redis, redis_client, redis, redisUp,
                   now, pc, written>>

----------------------------------------------------------------------------
(* cleanup_expired_sessions *)

\* Variant: the TTL is left out of the comparison.
IsExpired_any_age(session_data) == now - session_data.last_activity > 0

\* Variant: >= instead of >.
IsExpired_at_boundary(session_data) ==
    now - session_data.last_activity >= session_ttl * TicksPerSecond

\* `current_time - last_activity > timedelta(seconds=settings.session_ttl)`
IsExpired(session_data) ==
    now - session_data.last_activity > session_ttl * TicksPerSecond

\* The list expired_sessions; the loop is the same in both storage modes.
expired_sessions ==
    IF RedisEnabled
    THEN { u \in Users :
             fallback_storage[u] # None /\ IsExpired(fallback_storage[u]) }
    ELSE { u \in Users :
             fallback_storage[u] # None /\ IsExpired(fallback_storage[u]) }

CleanupExpiredSessions ==
    /\ pc = "idle"
    /\ fallback_storage' =
          [u \in Users |->
              IF u \in expired_sessions THEN None ELSE fallback_storage[u]]
    /\ last' = [op |-> "cleanup", user |-> "-", outcome |-> "none",
                result |-> CountResult(Cardinality(expired_sessions))]
    /\ UNCHANGED <<use_redis, redis_client, redis, redisUp, now, pc, written>>

----------------------------------------------------------------------------
(* get_storage_status *)

\* The inner try/except around redis_client.info().
redis_info(outcome) ==
    IF RedisEnabled
    THEN IF outcome = "raise" THEN "redis_info_error" ELSE "info"
    ELSE "none"

get_storage_status(outcome) ==
    DescriptorResult(
        [storage_type |-> IF use_redis THEN "redis" ELSE "in_memory",
         redis_connected |-> use_redis,
         fallback_storage_count |->
             Cardinality({u \in Users : fallback_storage[u] # None}),
         redis_info |-> redis_info(outcome)])

GetStorageStatus ==
    /\ pc = "idle"
    /\ \E o \in DurableOutcomes :
          last' = [op |-> "status", user |-> "-", outcome |-> o,
                   result |-> get_storage_status(o)]
    /\ UNCHANGED <<fallback_storage, use_redis, redis_client, redis, redisUp,
                   now, pc, written>>

----------------------------------------------------------------------------
(* The environment: the clock and the Redis server *)

\* Time passes; Redis drops the keys whose TTL has run out.
Tick ==
    /\ now < MaxNow
    /\ now' = now + 1
    /\ redis' = [key \in RedisKeys |->
                    IF redis[key] # None /\ now + 1 < redis[key].expire_at
                    THEN redis[key]
                    ELSE None]
    /\ UNCHANGED <<fallback_storage, use_redis, redis_client, redisUp, pc, last,
                   written>>

RedisGoesDown ==
    /\ redisUp
    /\ redisUp' = FALSE
    /\ UNCHANGED <<fallback_storage, use_redis, redis_client, redis, now, pc,
                   last, written>>

RedisComesUp ==
    /\ ~redisUp
    /\ redisUp' = TRUE
    /\ UNCHANGED <<fallback_storage, use_redis, redis_client, redis, now, pc,
                   last, written>>

----------------------------------------------------------------------------
(* __init__ / _initialize_redis, and the specification *)

\* The constructor pings Redis once: use_redis is set from that one ping and
\* no method assigns it afterwards.
Init ==
    /\ redisUp \in BOOLEAN
    /\ use_redis = redisUp
    /\ redis_client = IF redisUp THEN "client" ELSE "null"
    /\ fallback_storage = [u \in Users |-> None]
    /\ redis = [key \in RedisKeys |-> None]
    /\ now = 0
    /\ pc = "idle"
    /\ last = [op |-> "init", user |-> "-", outcome |-> "none",
               result |-> [kind |-> "none", val |-> None]]
    /\ written = [u \in Users |-> None]
    /\ req = [r \in Reqs |-> IdleRequest]
    /\ running = 0

\* The store's methods called directly, as test_session_storage does.
Next ==
    \/ (\E u \in Users : GetSession(u)) /\ UNCHANGED chatVars
    \/ (\E u \in Users : \E s \in SessionInputs(u) : SaveSessionBegin(u, s))
          /\ UNCHANGED chatVars
    \/ SaveSessionSetex /\ UNCHANGED chatVars
    \/ (\E u \in Users : DeleteSession(u)) /\ UNCHANGED chatVars
    \/ GetAllSessions /\ UNCHANGED chatVars
    \/ CleanupExpiredSessions /\ UNCHANGED chatVars
    \/ GetStorageStatus /\ UNCHANGED chatVars
    \/ Tick /\ UNCHANGED chatVars
    \/ RedisGoesDown /\ UNCHANGED chatVars
    \/ RedisComesUp /\ UNCHANGED chatVars

Spec == Init /\ [][Next]_vars

-----------------------------------------------------------------------------
(* ChatSession (models.py) and OpenAIService.generate_response *)

\* `max_messages: int = 10`
max_messages == 10

\* The text of the message a request carries.
Text(r) == "m" \o ToString(r)

\* ChatSession(user_phone=...): both default factories read the clock.
NewChatSession(user_phone) ==
    [user_phone |-> user_phone, messages |-> << >>,
     created_at |-> now, last_activity |-> now]

\* Variant: the message is put in front of the list.
add_message_in_front(session, role, content) ==
    [session EXCEPT
        !.messages = <<[role |-> role, content |-> content]>> \o @,
        !.last_activity = now]

add_message(session, role, content) ==
    [session EXCEPT
        !.messages = Append(@, [role |-> role, content |-> content]),
        !.last_activity = now]

\* Variant: the whole list, whatever its length.
get_conversation_history_all(session) == session.messages

\* Variant: the first max_messages messages instead of the last.
get_conversation_history_head(session) ==
    IF Len(session.messages) > max_messages
    THEN SubSeq(session.messages, 1, max_messages)
    ELSE session.messages

\* `self.messages[-max_messages:] if len(self.messages) > max_messages else
\* self.messages`
get_conversation_history(session) ==
    IF Len(session.messages) > max_messages
    THEN SubSeq(session.messages, Len(session.messages) - max_messages + 1,
                Len(session.messages))
    ELSE session.messages

\* What the call to the model can end in: a completion with text, one of the
\* four except clauses, a response without choices, a first choice whose
\* content is empty.
ModelOutcomes ==
    {"text", "AuthenticationError", "RateLimitError", "APIError", "Exception",
     "no_choices", "empty"}

\* The text the model answers the last message of the history with.
Completion(messages) == "re:" \o messages[Len(messages)].content

\* generate_response: the content of the first choice, None from every except
\* clause and from a response without choices.
generate_response(messages, outcome) ==
    CASE outcome = "text"  -> [kind |-> "str", val |-> Completion(messages)]
      [] outcome = "empty" -> [kind |-> "str", val |-> ""]
      [] OTHER             -> [kind |-> "none", val |-> ""]

\* Variant: `if ai_response is not None:`
Truthy_not_none(ai_response) == ai_response.kind = "str"

\* `if ai_response:`
Truthy(ai_response) == ai_response.kind = "str" /\ ai_response.val # ""

fallback_response == "I'm sorry, I'm having trouble processing your message right now. Please try again in a moment."

-----------------------------------------------------------------------------
(* ChatService *)

\* The `session_data` dictionary _save_session_to_storage builds.
session_data_of(session) ==
    [user_phone    |-> session.user_phone,
     messages      |-> [i \in 1..Len(session.messages) |->
                           [role    |-> session.messages[i].role,
                            content |-> session.messages[i].content]],
     created_at    |-> session.created_at,
     last_activity |-> session.last_activity]

\* get_or_create_session, lines 40-45: the ChatSession rebuilt from a record
\* of the store.
ReconstructSession(session_data) ==
    [user_phone    |-> session_data.user_phone,
     messages      |-> [i \in 1..Len(session_data.messages) |->
                           [role    |-> session_data.messages[i].role,
                            content |-> session_data.messages[i].content]],
     created_at    |-> session_data.created_at,
     last_activity |-> session_data.last_activity]

\* Variant: the new session is not seeded.
CreatedSession_unseeded(user_phone) == NewChatSession(user_phone)

\* get_or_create_session, lines 51-55: a new session with the system message.
CreatedSession(user_phone) ==
    add_message(NewChatSession(user_phone), SystemMessage.role,
                SystemMessage.content)

\* process_message, lines 97-105: the user message is added to the session
\* get_or_create_session returned, the history is taken, and the model is
\* called. generate_response is a coroutine without an await of its own: it
\* calls the synchronous client (openai_service.py line 51), so the request
\* keeps the event loop while the call is out.
AwaitModel(r, session) ==
    LET s == add_message(session, "user", req[r].text)
    IN  /\ req' = [req EXCEPT ![r].stage = "awaiting",
                              ![r].session = s,
                              ![r].history = get_conversation_history(s)]
        /\ UNCHANGED running

\* A webhook request reaches process_message; get_or_create_session starts
\* with _cleanup_expired_sessions.
ProcessMessage(r, u) ==
    /\ running = 0
    /\ req[r].stage = "idle"
    /\ u \in Senders(r)
    /\ CleanupExpiredSessions
    /\ req' = [req EXCEPT ![r].stage = "get", ![r].user = u,
                          ![r].text = Text(r)]
    /\ running' = r

\* get_or_create_session, lines 36-47: the lookup, and the branch on it.
GetOrCreateLookup(r) ==
    /\ running = r
    /\ req[r].stage = "get"
    /\ GetSession(req[r].user)
    /\ IF last'.result.kind = "session"
       THEN AwaitModel(r, ReconstructSession(last'.result.val))
       ELSE /\ req' = [req EXCEPT ![r].stage = "create"]
            /\ UNCHANGED running

\* get_or_create_session, lines 49-58: creation, and the fallback write of
\* the save.
GetOrCreateCreate(r) ==
    /\ running = r
    /\ req[r].stage = "create"
    /\ LET session == CreatedSession(req[r].user)
       IN  /\ SaveSessionBegin(req[r].user, session_data_of(session))
           /\ IF pc' = "setex"
              THEN /\ req' = [req EXCEPT ![r].stage = "create_setex",
                                         ![r].session = session]
                   /\ UNCHANGED running
              ELSE AwaitModel(r, session)

\* The Redis write of the creation's save; then line 60 returns the session.
GetOrCreateSetex(r) ==
    /\ running = r
    /\ req[r].stage = "create_setex"
    /\ SaveSessionSetex
    /\ AwaitModel(r, req[r].session)

\* process_message, lines 105-124: the model call returns. A reply is added
\* and the session saved; without a reply nothing is saved.
ModelReturns(r, outcome) ==
    /\ running = r
    /\ req[r].stage = "awaiting"
    /\ LET ai_response == generate_response(req[r].history, outcome)
           session     == add_message(req[r].session, "assistant",
                                      ai_response.val)
       IN  IF Truthy(ai_response)
           THEN /\ SaveSessionBegin(req[r].user, session_data_of(session))
                /\ req' = [req EXCEPT
                             ![r].stage = IF pc' = "setex" THEN "save_setex"
                                          ELSE "done",
                             ![r].session = session,
                             ![r].model = outcome,
                             ![r].reply = ai_response.val]
                /\ UNCHANGED running
           ELSE /\ req' = [req EXCEPT ![r].stage = "done",
                                      ![r].model = outcome,
                                      ![r].reply = fallback_response]
                /\ UNCHANGED <<fallback_storage, use_redis, redis_client,
                               redis, redisUp, now, pc, last, written,
                               running>>

\* The Redis write of the save after the reply; then line 119 returns.
ProcessMessageSetex(r) ==
    /\ running = r
    /\ req[r].stage = "save_setex"
    /\ SaveSessionSetex
    /\ req' = [req EXCEPT ![r].stage = "done"]
    /\ UNCHANGED running

\* twilio_webhook, lines 124-131: the reply is wrapped and returned without
\* another await; the request is over.
ProcessMessageDone(r) ==
    /\ running = r
    /\ req[r].stage = "done"
    /\ req' = [req EXCEPT ![r] = AnsweredRequest]
    /\ running' = 0
    /\ UNCHANGED <<fallback_storage, use_redis, redis_client, redis, redisUp,
                   now, pc, last, written>>

\* clear_session: delete_session, and its result passed on.
ClearSession(u) ==
    /\ running = 0
    /\ DeleteSession(u)
    /\ UNCHANGED chatVars

\* The literal of `timedelta(seconds=86400)` in get_session_info.
is_active_seconds == 86400

\* get_session_info, lines 151-159: what it makes of the record get_session
\* returned.
get_session_info(session_data) ==
    IF session_data = None
    THEN None
    ELSE [user_phone    |-> session_data.user_phone,
          message_count |-> Len(session_data.messages),
          created_at    |-> isoformat(session_data.created_at),
          last_activity |-> isoformat(session_data.last_activity),
          is_active     |-> now - session_data.last_activity
                              < is_active_seconds * TicksPerSecond]

\* get_session_info: its lookup; the dictionary it returns is
\* get_session_info(last.result.val).
GetSessionInfo(u) ==
    /\ running = 0
    /\ GetSession(u)
    /\ UNCHANGED chatVars

\* The GET /sessions request, as the value of `running`.
SessionsRequest == Cardinality(Reqs) + 1

\* `len(all_sessions)`
len_sessions(all_sessions) ==
    Cardinality({u \in Users : all_sessions[u] # None})

\* get_active_sessions_count, line 187: the sweep it starts with.
GetActiveSessionsCountSweep ==
    /\ running = 0
    /\ CleanupExpiredSessions
    /\ running' = SessionsRequest
    /\ UNCHANGED req

\* get_active_sessions_count, lines 188-189: get_all_sessions, whose size is
\* returned.
GetActiveSessionsCount ==
    /\ running = SessionsRequest
    /\ GetAllSessions
    /\ running' = 0
    /\ UNCHANGED req

\* The webhook and the session endpoints on one event loop, the clock, and
\* Redis going away and coming back.
ChatNext ==
    \/ \E r \in Reqs : \E u \in Users : ProcessMessage(r, u)
    \/ \E r \in Reqs : GetOrCreateLookup(r)
    \/ \E r \in Reqs : GetOrCreateCreate(r)
    \/ \E r \in Reqs : GetOrCreateSetex(r)
    \/ \E r \in Reqs : \E outcome \in ModelOutcomes : ModelReturns(r, outcome)
    \/ \E r \in Reqs : ProcessMessageSetex(r)
    \/ \E r \in Reqs : ProcessMessageDone(r)
    \/ \E u \in Users : ClearSession(u)
    \/ \E u \in Users : GetSessionInfo(u)
    \/ GetActiveSessionsCountSweep
    \/ GetActiveSessionsCount
    \/ Tick /\ UNCHANGED chatVars
    \/ RedisGoesDown /\ UNCHANGED chatVars
    \/ RedisComesUp /\ UNCHANGED chatVars

SpecChat == Init /\ [][ChatNext]_vars


----------------------------------------------------------------------------
(* Properties *)

TtlTicks == session_ttl * TicksPerSecond

HasWritten(u) == written[u] # None /\ written[u] # Deleted

\* The durable tier did not answer the call: it raised, or the store runs in
\* fallback-only mode because Redis was unreachable at construction.
Unreachable(outcome) == outcome \in {"raise", "none"}

\* C1: if save_session(u, s) runs while the durable tier is unreachable, the
\* following get_session(u), also with the durable tier unreachable, returns s.
C1_FallbackDurability ==
    [][\A u \in Users :
          ( /\ pc = "idle"
            /\ last.op = "save" /\ last.user = u /\ Unreachable(last.outcome)
            /\ GetSession(u)
            /\ Unreachable(last'.outcome) )
          => last'.result = SessionResult(written[u])]_vars

\* A get whose Redis call raised returned the session saved in this same tick,
\* of which Redis holds no record: its durable write had failed.
C1_Witness ==
    /\ use_redis /\ ~redisUp
    /\ last.op = "get" /\ last.outcome = "raise"
    /\ HasWritten(last.user)
    /\ written[last.user].last_activity = now
    /\ redis[_get_redis_key(last.user)] = None
    /\ last.result = SessionResult(written[last.user])

\* The session of u was written, not deleted since, and is still active.
Live(u) ==
    /\ HasWritten(u)
    /\ now - written[u].last_activity < TtlTicks

\* C2: a get_session(u) made while the durable tier is unreachable does not
\* return absent for a user whose session was written through save_session and
\* has since been neither deleted nor expired.
C2_NoLossByOutage ==
    ( /\ last.op = "get"
      /\ Unreachable(last.outcome)
      /\ Live(last.user) )
    => last.result.kind = "session"

\* The read was served while Redis, which holds the record, was unreachable.
C2_Witness ==
    /\ last.op = "get" /\ last.outcome = "raise"
    /\ ~redisUp
    /\ Live(last.user)
    /\ RedisLive(_get_redis_key(last.user))
    /\ last.result.kind = "session"

\* C3: every user with a live record in the durable tier has a record in the
\* fallback tier.
C3_FallbackSuperset ==
    \A u \in Users :
        RedisLive(_get_redis_key(u)) => fallback_storage[u] # None

\* C4: with the durable tier reachable, save_session(u, s) returns True and the
\* get_session(u) that follows returns a session equal to s in every field.
C4_RoundTrip ==
    [][\A u \in Users :
          ( /\ pc = "idle"
            /\ last.op = "save" /\ last.user = u /\ last.outcome = "ok"
            /\ GetSession(u)
            /\ last'.outcome = "ok" )
          => /\ last.result = BoolResult(TRUE)
             /\ last'.result = SessionResult(written[u])]_vars

\* The get read the record back from Redis, with a timestamp that has a
\* fractional part.
C4_Witness ==
    /\ last.op = "get" /\ last.outcome = "ok"
    /\ HasWritten(last.user)
    /\ RedisLive(_get_redis_key(last.user))
    /\ redis[_get_redis_key(last.user)].value =
          _serialize_session(written[last.user])
    /\ written[last.user].last_activity % TicksPerSecond # 0
    /\ last.result = SessionResult(written[last.user])

\* C5: save_session returns True whenever the fallback copy was written,
\* whichever way the durable write failed (raise, timeout, non-ok result).
C5_SaveReportsSuccess ==
    ( /\ last.op = "save"
      /\ last.result.kind = "bool"
      /\ fallback_storage[last.user] = written[last.user] )
    => last.result.val = TRUE

\* C6: the fallback tier holds s for u from the start of the durable attempt
\* of save_session(u, s) onward, and after the call for each of its outcomes.
C6_FallbackFirst ==
    /\ pc = "setex" => fallback_storage[last.user] = written[last.user]
    /\ (last.op = "save" /\ last.result.kind = "bool")
          => fallback_storage[last.user] = written[last.user]

\* The durable attempt is about to start, against an unreachable Redis.
C6_Witness ==
    /\ pc = "setex"
    /\ ~redisUp
    /\ HasWritten(last.user)
    /\ fallback_storage[last.user] = written[last.user]

\* C7: after delete_session(u) has returned, get_session(u) returns absent
\* until the next save_session(u, _).
C7_DeletedStaysAbsent ==
    (last.op = "get" /\ written[last.user] = Deleted)
    => last.result.kind = "absent"

\* A record for u exists in one of the tiers.
Existed(u) ==
    fallback_storage[u] # None \/ RedisLive(_get_redis_key(u))

\* C8: delete_session(u) returns True exactly when a record for u existed in
\* the fallback or the durable tier before the call.
C8_DeleteReportsExistence ==
    [][\A u \in Users :
          DeleteSession(u) => (last'.result = BoolResult(Existed(u)))]_vars

\* The result type each method declares.
DeclaredKinds(op) ==
    CASE op = "get"     -> {"session", "absent"}
      [] op = "save"    -> {"bool"}
      [] op = "delete"  -> {"bool"}
      [] op = "get_all" -> {"mapping"}
      [] op = "cleanup" -> {"count"}
      [] op = "status"  -> {"descriptor"}
      [] OTHER          -> {"none"}

\* C9: no method lets an exception out; whichever durable call fails, the
\* method returns a value of its declared result type.
C9_NoExceptionEscapes ==
    /\ last.result.kind # "exception"
    /\ pc = "idle" => last.result.kind \in DeclaredKinds(last.op)

\* get_all_sessions returned a mapping although a Redis call inside it raised.
C9_Witness ==
    /\ last.op = "get_all"
    /\ last.outcome \in {"raise", "partial"}
    /\ last.result.kind = "mapping"

\* last_activity is earlier than now - session_ttl.
Stale(u) ==
    /\ fallback_storage[u] # None
    /\ fallback_storage[u].last_activity < now - TtlTicks

\* C10: cleanup_expired_sessions removes exactly the fallback entries whose
\* last_activity is earlier than now - session_ttl, leaves the others as they
\* are, and returns the number removed.
C10_SweepExact ==
    [][CleanupExpiredSessions =>
          /\ \A u \in Users :
                fallback_storage'[u] =
                    IF Stale(u) THEN None ELSE fallback_storage[u]
          /\ last'.result =
                CountResult(Cardinality({u \in Users : Stale(u)}))]_vars

\* A sweep over a mixture removed one entry and left a fresh one in place.
C10_Witness ==
    /\ last.op = "cleanup"
    /\ last.result = CountResult(1)
    /\ \E u \in Users :
          /\ fallback_storage[u] # None
          /\ HasWritten(u)
          /\ fallback_storage[u] = written[u]
    /\ \E u \in Users : HasWritten(u) /\ fallback_storage[u] = None

\* C11: for a session of u saved at time t with no later activity, a sweep
\* before t + session_ttl leaves it, the first sweep after t + session_ttl
\* removes it and counts it, and every get_session(u) after that sweep returns
\* absent, in fallback-only mode and with Redis in use.
C11_TtlLifecycle ==
    [][ /\ CleanupExpiredSessions =>
             \A u \in Users :
                (HasWritten(u) /\ fallback_storage[u] = written[u]) =>
                   /\ now < written[u].last_activity + TtlTicks
                         => fallback_storage'[u] = fallback_storage[u]
                   /\ now > written[u].last_activity + TtlTicks
                         => /\ fallback_storage'[u] = None
                            /\ last'.result.val >= 1
        /\ \A u \in Users :
              (GetSession(u) /\ HasWritten(u) /\ fallback_storage[u] = None)
                 => last'.result.kind = "absent" ]_vars

\* C20: a durable failure affects only the call it occurs in, also when it
\* occurred at construction: every get_session and save_session made while
\* Redis is reachable attempts the durable tier.
C20_ReattemptsDurable ==
    [][ /\ \A u \in Users :
              (GetSession(u) /\ redisUp) => last'.outcome # "none"
        /\ \A u \in Users :
              ((\E s \in SessionInputs(u) : SaveSessionBegin(u, s)) /\ redisUp)
                 => pc' = "setex" ]_vars

-----------------------------------------------------------------------------
(* One turn of process_message on a stored session of any length *)

MaxPairs == 7

\* A stored conversation of n messages: the system message, then user and
\* assistant messages in turn.
StoredMessages(n) ==
    [i \in 1..n |->
        IF i = 1 THEN SystemMessage
        ELSE [role    |-> IF i % 2 = 0 THEN "user" ELSE "assistant",
              content |-> "p" \o ToString(i)]]

\* The store holds in fallback_storage a session of u with k answered turns,
\* and request r for u has run the sweep that starts get_or_create_session.
TurnInit ==
    /\ redisUp \in BOOLEAN
    /\ use_redis = redisUp
    /\ redis_client = IF redisUp THEN "client" ELSE "null"
    /\ redis = [key \in RedisKeys |-> None]
    /\ now = 0
    /\ pc = "idle"
    /\ last = [op |-> "cleanup", user |-> "-", outcome |-> "none",
               result |-> CountResult(0)]
    /\ \E r \in Reqs : \E u \in Senders(r) : \E k \in 0..MaxPairs :
          LET session_data ==
                 [user_phone |-> u, messages |-> StoredMessages(2 * k + 1),
                  created_at |-> 0, last_activity |-> 0]
          IN  /\ fallback_storage =
                    [v \in Users |-> IF v = u THEN session_data ELSE None]
              /\ written = [v \in Users |-> IF v = u THEN session_data ELSE None]
              /\ req = [q \in Reqs |->
                           IF q = r
                           THEN [IdleRequest EXCEPT !.stage = "get",
                                                    !.user = u,
                                                    !.text = Text(r)]
                           ELSE IdleRequest]
              /\ running = r

TurnNext ==
    \/ \E r \in Reqs : GetOrCreateLookup(r)
    \/ \E r \in Reqs : \E outcome \in ModelOutcomes : ModelReturns(r, outcome)
    \/ \E r \in Reqs : ProcessMessageSetex(r)
    \/ \E r \in Reqs : ProcessMessageDone(r)

SpecTurn == TurnInit /\ [][TurnNext]_vars

-----------------------------------------------------------------------------
(* Properties of ChatService, checked under SpecChat *)

\* Redis holds nothing for u, or a live copy of the session written last.
RedisAgrees(u) ==
    \/ ~RedisLive(_get_redis_key(u))
    \/ redis[_get_redis_key(u)].value = _serialize_session(written[u])

\* The session of u is the one get_or_create_session created, untouched since.
JustCreated(u) ==
    /\ HasWritten(u)
    /\ written[u].messages = <<SystemMessage>>
    /\ fallback_storage[u] = written[u]
    /\ RedisAgrees(u)

\* C12: with no stored session for the user, get_or_create_session creates a
\* session of exactly one system message and persists it; while that session
\* is the stored one, get_session returns it, a sweep before its expiry leaves
\* it, and get_or_create_session returns it with no second system message,
\* whatever the outcome of the Redis calls.
C12_IdempotentCreation ==
    [][ \A r \in Reqs :
          LET u == req[r].user IN
          /\ (GetOrCreateLookup(r) /\ fallback_storage[u] = None
                 /\ redis[_get_redis_key(u)] = None)
                => req'[r].stage = "create"
          /\ GetOrCreateCreate(r)
                => /\ fallback_storage'[u].user_phone = u
                   /\ fallback_storage'[u].messages = <<SystemMessage>>
                   /\ req'[r].session.messages[1] = SystemMessage
                   /\ Len(req'[r].session.messages) =
                         IF pc' = "setex" THEN 1 ELSE 2
                   /\ JustCreated(u)' \/ pc' = "setex"
          /\ (GetOrCreateSetex(r) /\ ~RedisLive(_get_redis_key(u)))
                => JustCreated(u)'
          /\ \A v \in Users :
                (JustCreated(v) /\ ~IsExpired(fallback_storage[v])
                   /\ \E w \in Users : ProcessMessage(r, w))
                   => JustCreated(v)'
          /\ \A v \in Users :
                (JustCreated(v) /\ GetSessionInfo(v))
                   => last'.result = SessionResult(written[v])
          /\ (GetOrCreateLookup(r) /\ JustCreated(u))
                => /\ last'.result = SessionResult(written[u])
                   /\ req'[r].stage = "awaiting"
                   /\ req'[r].session.messages =
                         <<SystemMessage,
                           [role |-> "user", content |-> req[r].text]>>
                   /\ UNCHANGED <<fallback_storage, redis>> ]_vars

\* The first request of user A created the session and got no reply from the
\* model; the second one found that session, through a lookup whose Redis
\* call failed, and holds it with its own message added.
C12_Witness ==
    /\ req[1].stage = "answered"
    /\ req[2].stage = "awaiting"
    /\ req[2].user = "A"
    /\ Len(req[2].session.messages) = 2
    /\ JustCreated("A")
    /\ last.op = "get" /\ last.outcome = "raise"

\* The failures of the model adapter.
ModelFailures == ModelOutcomes \ {"text"}

\* The messages the two tiers hold for u.
PersistedMessages(u) ==
    (IF fallback_storage[u] = None THEN {}
     ELSE {fallback_storage[u].messages[i] :
             i \in 1..Len(fallback_storage[u].messages)})
    \cup
    (IF redis[_get_redis_key(u)] = None THEN {}
     ELSE {redis[_get_redis_key(u)].value.messages[i] :
             i \in 1..Len(redis[_get_redis_key(u)].value.messages)})

\* C13: whichever way the model adapter fails (authentication, rate limit,
\* API error, any other exception, no choices, empty content),
\* process_message returns the one fixed apology, the failing call changes
\* neither tier, and when the request is answered no tier holds an assistant
\* message of that turn.
C13_UniformFallbackReply ==
    [][ \A r \in Reqs :
          /\ \A outcome \in ModelFailures :
                ModelReturns(r, outcome)
                   => /\ req'[r].stage = "done"
                      /\ req'[r].reply = fallback_response
                      /\ req'[r].session = req[r].session
                      /\ UNCHANGED <<fallback_storage, redis>>
          /\ (ProcessMessageDone(r) /\ req[r].model \in ModelFailures)
                => /\ req[r].reply = fallback_response
                   /\ \A m \in PersistedMessages(req[r].user) :
                         m.role = "assistant"
                            => m.content \notin {"", Completion(req[r].history)}
        ]_vars

\* The first turn of user A was answered by the model and saved; the second
\* one got an empty completion and is about to return the apology, with the
\* stored session still that of the first turn.
C13_Witness ==
    /\ req[1].stage = "answered"
    /\ req[2].stage = "done"
    /\ req[2].user = "A"
    /\ req[2].model = "empty"
    /\ req[2].reply = fallback_response
    /\ fallback_storage["A"] # None
    /\ Len(fallback_storage["A"].messages) = 3
    /\ Len(req[2].session.messages) = 4

\* C14: when the model adapter has failed in process_message(u, text), the
\* session stored for u ends with the user message carrying text.
C14_UserMessagePersisted ==
    \A r \in Reqs :
       (req[r].stage = "done" /\ req[r].model \in ModelFailures)
          => /\ fallback_storage[req[r].user] # None
             /\ fallback_storage[req[r].user].messages
                   [Len(fallback_storage[req[r].user].messages)]
                = [role |-> "user", content |-> req[r].text]

\* One system message, at the head, then user and assistant in turn.
Alternates(messages) ==
    /\ Len(messages) >= 1
    /\ \A i \in 1..Len(messages) :
          messages[i].role = IF i = 1 THEN "system"
                             ELSE IF i % 2 = 0 THEN "user" ELSE "assistant"

\* C16: every session held by fallback_storage or by Redis has exactly one
\* system message, at index 0, followed by user and assistant messages in
\* strict alternation starting with user.
C16_LeadingSystemThenAlternation ==
    \A u \in Users :
       /\ fallback_storage[u] # None => Alternates(fallback_storage[u].messages)
       /\ redis[_get_redis_key(u)] # None
             => Alternates(redis[_get_redis_key(u)].value.messages)

\* Two answered turns of user A are stored in both tiers.
C16_Witness ==
    /\ fallback_storage["A"] # None
    /\ Len(fallback_storage["A"].messages) = 5
    /\ RedisLive(_get_redis_key("A"))
    /\ Len(redis[_get_redis_key("A")].value.messages) = 5
    /\ \A r \in Reqs : req[r].stage = "answered"

\* The session of u has been deleted, or has expired and been swept, and has
\* not been saved since.
Gone(u) ==
    \/ written[u] = Deleted
    \/ HasWritten(u) /\ fallback_storage[u] = None

\* Some tier holds a record for u.
Stored(u) == fallback_storage[u] # None \/ redis[_get_redis_key(u)] # None

\* C17: once the session of u is gone, get_or_create_session for u takes the
\* creation path, and a record for u appears in the store only as the session
\* of the single system message.
C17_ReturnsOnlyByCreation ==
    [][ /\ \A r \in Reqs :
             (GetOrCreateLookup(r) /\ Gone(req[r].user))
                => req'[r].stage = "create"
        /\ \A u \in Users :
             (~Stored(u) /\ Stored(u)')
                => /\ fallback_storage'[u] # None
                   /\ fallback_storage'[u].messages = <<SystemMessage>> ]_vars

\* The requests inside process_message.
InFlight == {r \in Reqs : req[r].stage \notin {"idle", "answered"}}

\* process_message has no point of suspension, so the event loop never has two
\* requests inside it: no request loads a session between the load and the
\* save of another one.
OneRequestAtATime ==
    /\ Cardinality(InFlight) <= 1
    /\ \A r \in InFlight : running = r

\* A step of a call made for u: of process_message, get_session_info or
\* clear_session.
StepFor(u) ==
    \/ \E r \in Reqs : ProcessMessage(r, u)
    \/ \E r \in Reqs :
          /\ req[r].user = u
          /\ \/ GetOrCreateLookup(r)
             \/ GetOrCreateCreate(r)
             \/ GetOrCreateSetex(r)
             \/ \E outcome \in ModelOutcomes : ModelReturns(r, outcome)
             \/ ProcessMessageSetex(r)
             \/ ProcessMessageDone(r)
    \/ GetSessionInfo(u)
    \/ ClearSession(u)

\* C19: for distinct users u and v, no step of a call for u changes what the
\* two tiers hold for v, unless v's session has expired, and get_session(v)
\* returns after the step what it would have returned before it.
C19_OtherUsersUntouched ==
    [][ \A u \in Users : \A v \in Users \ {u} :
          (StepFor(u) /\ (fallback_storage[v] = None
                            \/ now <= fallback_storage[v].last_activity
                                         + TtlTicks))
             => /\ fallback_storage'[v] = fallback_storage[v]
                /\ redis'[_get_redis_key(v)] = redis[_get_redis_key(v)]
                /\ \A outcome \in {"ok", "raise", "none"} :
                      get_session(v, outcome)' = get_session(v, outcome) ]_vars

\* The session of A is stored in both tiers and has not expired, and a whole
\* turn of B has run since, answered by the model and saved.
C19_Witness ==
    /\ req[1].stage = "answered"
    /\ req[2].stage = "done"
    /\ req[2].user = "B"
    /\ req[2].model = "text"
    /\ fallback_storage["A"] # None
    /\ now <= fallback_storage["A"].last_activity + TtlTicks
    /\ Len(fallback_storage["A"].messages) = 3
    /\ RedisLive(_get_redis_key("A"))
    /\ fallback_storage["B"] # None

-----------------------------------------------------------------------------
(* Properties of one turn, checked under SpecTurn *)

\* C15: when process_message calls the model, with n the number of messages
\* of the session (the new user message included), the history it passes is
\* the whole list if n <= 10 and otherwise the last 10 messages in order; it
\* ends with the new user message.
C15_ContextWindow ==
    \A r \in Reqs :
       req[r].stage = "awaiting"
          => LET messages == req[r].session.messages
                 n        == Len(messages)
                 history  == req[r].history
             IN  /\ messages[n] = [role |-> "user", content |-> req[r].text]
                 /\ history[Len(history)] = messages[n]
                 /\ n <= 10 => history = messages
                 /\ n > 10 => /\ Len(history) = 10
                              /\ \A i \in 1..10 : history[i] = messages[n - 10 + i]

\* The turn after fifteen stored messages: sixteen in the session, ten passed.
C15_Witness ==
    \E r \in Reqs :
       /\ req[r].stage = "awaiting"
       /\ Len(req[r].session.messages) = 16
       /\ Len(req[r].history) = 10
       /\ req[r].history[1].content = "p7"

\* C29: the history process_message passes to the model has the session's
\* system message as its first element, for every session length.
C29_SystemMessageFirst ==
    \A r \in Reqs :
       req[r].stage = "awaiting" => req[r].history[1] = SystemMessage

\* C29, amended: the history passed to the model starts with the system
\* message exactly when the session, the new user message included, has at
\* most 10 messages; a longer session is passed without its system message.
C29_SystemMessageFirstUpToTen ==
    \A r \in Reqs :
       req[r].stage = "awaiting"
          => /\ (req[r].history[1] = SystemMessage)
                   = (Len(req[r].session.messages) <= 10)
             /\ Len(req[r].session.messages) > 10
                   => \A i \in 1..Len(req[r].history) :
                         req[r].history[i].role # "system"

\* A session of exactly ten messages is passed whole, system message first.
C29_Witness ==
    \E r \in Reqs :
       /\ req[r].stage = "awaiting"
       /\ Len(req[r].session.messages) = 10
       /\ Len(req[r].history) = 10
       /\ req[r].history[1] = SystemMessage

-----------------------------------------------------------------------------
(* Further properties of SessionStorage, checked under Spec *)

\* C24: the Redis record of u is written with the session's remaining TTL, so
\* it is never live after last_activity + session_ttl.
C24_RemainingTtl ==
    \A u \in Users :
       redis[_get_redis_key(u)] # None
          => redis[_get_redis_key(u)].expire_at
                <= fromisoformat(redis[_get_redis_key(u)].value.last_activity)
                     + TtlTicks

\* C27: while the session of the latest save_session(u, _) has been neither
\* deleted nor swept, get_session(u) returns it, whichever of the Redis writes
\* of the saves so far failed.
C27_LatestSaveReturned ==
    [][ \A u \in Users :
          (GetSession(u) /\ HasWritten(u) /\ fallback_storage[u] = written[u])
             => last'.result = SessionResult(written[u]) ]_vars

\* C23: when the store is connected to Redis and Redis answers, get_all_sessions
\* returns exactly the users with a key in Redis, each with what get_session
\* returns for it; when the store has no connection or one of the Redis calls
\* fails, it returns exactly the contents of fallback_storage.
C23_AllSessionsSource ==
    [][ GetAllSessions =>
          IF RedisEnabled /\ last'.outcome \notin {"raise", "partial"}
          THEN last'.result =
                 MappingResult(
                    [u \in Users |->
                        IF _get_redis_key(u) \in RedisKEYS
                        THEN get_session(u, "ok").val
                        ELSE None])
          ELSE last'.result = MappingResult(FallbackCopy) ]_vars

\* C26: get_storage_status reports Redis as the live tier (storage_type
\* "redis", redis_connected true) exactly when Redis is reachable at the time
\* of the call, and fallback_storage_count is the number of fallback entries.
C26_StatusIsCurrent ==
    [][ GetStorageStatus =>
          /\ last'.result.val.redis_connected = redisUp
          /\ (last'.result.val.storage_type = "redis") = redisUp
          /\ last'.result.val.fallback_storage_count =
                Cardinality({u \in Users : fallback_storage[u] # None}) ]_vars

-----------------------------------------------------------------------------
(* Further properties of ChatService, checked under SpecChat *)

\* C22: the number get_active_sessions_count returns is the number of the
\* sessions it found that are active at that time (now - last_activity <
\* session_ttl): no other session is counted.
C22_CountsOnlyActive ==
    [][ GetActiveSessionsCount =>
          len_sessions(last'.result.val) =
             Cardinality({u \in Users :
                            /\ last'.result.val[u] # None
                            /\ now - last'.result.val[u].last_activity
                                  < TtlTicks}) ]_vars

\* C21: for a stored session, get_session_info reports is_active = true
\* exactly when now - last_activity < session_ttl at the time of the query.
C21_IsActiveByTtl ==
    [][ \A u \in Users :
          (GetSessionInfo(u) /\ last'.result.kind = "session")
             => get_session_info(last'.result.val).is_active
                   = (now - last'.result.val.last_activity < TtlTicks) ]_vars

\* C25: whatever the Redis calls and the model call of a process_message do,
\* the request goes on to its reply, and the reply it returns is a non-empty
\* string: the model's text, or the apology.
C25_AlwaysAReply ==
    [][ \A r \in Reqs :
          /\ GetOrCreateLookup(r) => req'[r].stage \in {"create", "awaiting"}
          /\ GetOrCreateCreate(r)
                => req'[r].stage \in {"create_setex", "awaiting"}
          /\ GetOrCreateSetex(r) => req'[r].stage = "awaiting"
          /\ \A outcome \in ModelOutcomes :
                ModelReturns(r, outcome)
                   => /\ req'[r].stage \in {"save_setex", "done"}
                      /\ req'[r].reply \in {fallback_response,
                                              Completion(req[r].history)}
                      /\ req'[r].reply \notin {"", "-"}
          /\ ProcessMessageSetex(r)
                => /\ req'[r].stage = "done"
                   /\ req'[r].reply = req[r].reply
          /\ ProcessMessageDone(r) => req[r].reply \notin {"", "-"} ]_vars

\* A request whose lookup and whose save both met a failing Redis is about to
\* return the model's text.
C25_Witness ==
    \E r \in Reqs :
       /\ req[r].stage = "done"
       /\ req[r].model = "text"
       /\ req[r].reply = Completion(req[r].history)
       /\ last.op = "save"
       /\ last.outcome = "raise"
       /\ ~redisUp

IsPrefix(s, t) == Len(s) <= Len(t) /\ SubSeq(t, 1, Len(s)) = s

\* C28: while the session saved last for u has been neither deleted nor
\* swept, the list a process_message for u saves has the list saved before as
\* a prefix.
C28_AppendOnly ==
    [][ \A r \in Reqs :
          LET u == req[r].user IN
          (/\ \/ GetOrCreateCreate(r)
              \/ \E outcome \in ModelOutcomes : ModelReturns(r, outcome)
           /\ HasWritten(u)
           /\ fallback_storage[u] = written[u])
             => IsPrefix(fallback_storage[u].messages,
                         fallback_storage'[u].messages) ]_vars

\* C30: the stored session get_or_create_session goes on with is active
\* (now - last_activity < session_ttl); for a session that is not, the
\* creation path is taken.
C30_NeverReturnsInactive ==
    [][ \A r \in Reqs :
          (GetOrCreateLookup(r) /\ last'.result.kind = "session")
             => now - last'.result.val.last_activity < TtlTicks ]_vars

\* What the two tiers hold for u.
Record(u) == <<fallback_storage[u], redis[_get_redis_key(u)]>>

\* C31, as stated: when a record is stored for u, a process_message(u, text)
\* whose model call fails changes it in neither tier: not by its sweep, not by
\* its lookup, which finds a session and so keeps the call off the creation
\* path, and not on the return of the model call.
C31_FailedCallLeavesRecord ==
    [][ \A r \in Reqs : \A u \in Users :
          Stored(u) =>
             /\ ProcessMessage(r, u) => UNCHANGED Record(u)
             /\ (req[r].user = u /\ GetOrCreateLookup(r))
                   => /\ UNCHANGED Record(u)
                      /\ req'[r].stage = "awaiting"
             /\ \A outcome \in ModelFailures :
                   (req[r].user = u /\ ModelReturns(r, outcome))
                      => UNCHANGED Record(u) ]_vars

\* C31, amended: when the fallback entry of u, if there is one, has
\* now - last_activity <= session_ttl as process_message(u, text) starts, the
\* sweep leaves the record of u in both tiers; the lookup changes neither tier,
\* and a session it finds is the one the call goes on with; and a model call
\* that fails ends the call with both tiers as they were.
C31_FailedCallLeavesLiveRecord ==
    [][ \A r \in Reqs : \A u \in Users :
          /\ ( /\ ProcessMessage(r, u)
               /\ Stored(u)
               /\ fallback_storage[u] # None
                     => now - fallback_storage[u].last_activity <= TtlTicks )
                => UNCHANGED Record(u)
          /\ (req[r].user = u /\ GetOrCreateLookup(r))
                => /\ UNCHANGED <<fallback_storage, redis>>
                   /\ last'.result.kind = "session"
                         => /\ req'[r].stage = "awaiting"
                            /\ req'[r].session.created_at
                                  = last'.result.val.created_at
                   /\ last'.result.kind # "session"
                         => req'[r].stage = "create"
          /\ \A outcome \in ModelFailures :
                (req[r].user = u /\ ModelReturns(r, outcome))
                   => /\ UNCHANGED <<fallback_storage, redis>>
                      /\ req'[r].stage = "done" ]_vars

\* The second turn of user A found the session of the first turn, the model
\* call ran into the rate limit, and both tiers still hold the session as the
\* first turn saved it.
C31_Witness ==
    /\ req[1].stage = "answered"
    /\ req[2].stage = "done"
    /\ req[2].user = "A"
    /\ req[2].model = "RateLimitError"
    /\ Len(req[2].session.messages) = 4
    /\ HasWritten("A")
    /\ Len(written["A"].messages) = 3
    /\ fallback_storage["A"] = written["A"]
    /\ RedisLive(_get_redis_key("A"))
    /\ redis[_get_redis_key("A")].value = _serialize_session(written["A"])

-----------------------------------------------------------------------------
(* Messages of one user, one after another, with clear_session between them *)

MaxRequests == 3

\* The webhook requests of the user, in the order of their arrival.
Requests == 1..MaxRequests

\* The state after construction, with a slot for each of the requests.
SeriesInit ==
    /\ redisUp \in BOOLEAN
    /\ use_redis = redisUp
    /\ redis_client = IF redisUp THEN "client" ELSE "null"
    /\ fallback_storage = [u \in Users |-> None]
    /\ redis = [key \in RedisKeys |-> None]
    /\ now = 0
    /\ pc = "idle"
    /\ last = [op |-> "init", user |-> "-", outcome |-> "none",
               result |-> [kind |-> "none", val |-> None]]
    /\ written = [u \in Users |-> None]
    /\ req = [r \in Requests |-> IdleRequest]
    /\ running = 0

\* Request r arrives when the requests before it have been answered.
SeriesNext ==
    \/ \E r \in Requests :
          /\ \A q \in 1..(r - 1) : req[q].stage = "answered"
          /\ ProcessMessage(r, "A")
    \/ \E r \in Requests : GetOrCreateLookup(r)
    \/ \E r \in Requests : GetOrCreateCreate(r)
    \/ \E r \in Requests : GetOrCreateSetex(r)
    \/ \E r \in Requests : \E outcome \in ModelOutcomes :
          ModelReturns(r, outcome)
    \/ \E r \in Requests : ProcessMessageSetex(r)
    \/ \E r \in Requests : ProcessMessageDone(r)
    \/ ClearSession("A")
    \/ Tick /\ UNCHANGED chatVars
    \/ RedisGoesDown /\ UNCHANGED chatVars
    \/ RedisComesUp /\ UNCHANGED chatVars

SpecSeries == SeriesInit /\ [][SeriesNext]_vars

-----------------------------------------------------------------------------
(* Properties of ChatService, checked under SpecSeries *)

\* The sessions the two tiers hold for u.
StoredRecords(u) ==
    (IF fallback_storage[u] # None THEN {fallback_storage[u]} ELSE {})
       \cup (IF redis[_get_redis_key(u)] # None
             THEN {_deserialize_session(redis[_get_redis_key(u)].value)}
             ELSE {})

\* C32: every stored session has created_at <= last_activity; and when a
\* session of u is persisted after another one, with no delete and no expiry
\* of u's session since that one, created_at is the same and last_activity is
\* not smaller.
C32_TimestampsOrdered ==
    [][ \A u \in Users :
          /\ \A s \in StoredRecords(u)' : s.created_at <= s.last_activity
          /\ ( /\ HasWritten(u) /\ ~Gone(u)
               /\ HasWritten(u)'
               /\ written'[u] # written[u] )
                => /\ written'[u].created_at = written[u].created_at
                   /\ written'[u].last_activity >= written[u].last_activity
        ]_vars

-----------------------------------------------------------------------------
(* clear_all_sessions: the bulk deletion, on a store that callers have filled *)

\* The DELETE /sessions/all request before it arrives. `existed` keeps the
\* number of users a tier held a session for when the request arrived.
IdleBulkRequest ==
    [stage |-> "idle", keys |-> {}, cleared_count |-> 0, existed |-> 0]

BulkInit ==
    /\ redisUp \in BOOLEAN
    /\ use_redis = redisUp
    /\ redis_client = IF redisUp THEN "client" ELSE "null"
    /\ fallback_storage = [u \in Users |-> None]
    /\ redis = [key \in RedisKeys |-> None]
    /\ now = 0
    /\ pc = "idle"
    /\ last = [op |-> "init", user |-> "-", outcome |-> "none",
               result |-> [kind |-> "none", val |-> None]]
    /\ written = [u \in Users |-> None]
    /\ req = IdleBulkRequest
    /\ running = 0

\* clear_all_sessions, lines 210-211: get_all_sessions, and the counter.
ClearAllSessionsBegin ==
    /\ running = 0
    /\ req.stage = "idle"
    /\ GetAllSessions
    /\ req' = [stage         |-> "clearing",
               keys          |-> {u \in Users : last'.result.val[u] # None},
               cleared_count |-> 0,
               existed       |-> Cardinality({u \in Users : Stored(u)})]
    /\ running' = 1

\* Lines 213-215: one round of the loop over all_sessions.keys();
\* clear_session passes on what delete_session returns.
ClearAllSessionsClear(user_phone) ==
    /\ running = 1
    /\ req.stage = "clearing"
    /\ user_phone \in req.keys
    /\ DeleteSession(user_phone)
    /\ req' = [req EXCEPT
                 !.keys = @ \ {user_phone},
                 !.cleared_count = IF last'.result.val THEN @ + 1 ELSE @]
    /\ UNCHANGED running

\* Lines 217-220: the loop is over and the count is returned.
ClearAllSessionsReturn ==
    /\ running = 1
    /\ req.stage = "clearing"
    /\ req.keys = {}
    /\ req' = [req EXCEPT !.stage = "returned"]
    /\ running' = 0
    /\ UNCHANGED <<fallback_storage, use_redis, redis_client, redis, redisUp,
                   now, pc, last, written>>

\* Sessions are saved before the bulk deletion arrives and none after it; the
\* handler has no await, so no other request runs inside it.
BulkNext ==
    \/ /\ req.stage = "idle"
       /\ \E u \in Users : \E s \in SessionInputs(u) : SaveSessionBegin(u, s)
       /\ UNCHANGED chatVars
    \/ SaveSessionSetex /\ UNCHANGED chatVars
    \/ ClearAllSessionsBegin
    \/ \E u \in Users : ClearAllSessionsClear(u)
    \/ ClearAllSessionsReturn
    \/ (\E u \in Users : req.stage = "returned" /\ GetSession(u))
          /\ UNCHANGED chatVars
    \/ Tick /\ UNCHANGED chatVars
    \/ RedisGoesDown /\ UNCHANGED chatVars
    \/ RedisComesUp /\ UNCHANGED chatVars

SpecBulk == BulkInit /\ [][BulkNext]_vars

-----------------------------------------------------------------------------
(* Properties of clear_all_sessions, checked under SpecBulk *)

\* C33: once the bulk deletion has returned, neither tier holds a session for
\* any user, so get_session finds none, and cleared_count is the number of
\* users a session was stored for when the deletion started.
C33_BulkDeletionClearsAll ==
    req.stage = "returned"
       => /\ \A u \in Users : ~Stored(u)
          /\ (last.op = "get" => last.result = AbsentResult)
          /\ req.cleared_count = req.existed

====
